---- MODULE Spec2Model ----
(***************************************************************************)
(* Subtitle sanitizing and normalizing in winter0019/vsubtitle.            *)
(*                                                                         *)
(* The repository holds several versions of services/geminiService.ts.     *)
(* Each version has its own translateSubtitles and (for SRT) its own       *)
(* normalizeSrt; they are modelled side by side and named after the file   *)
(* they come from:                                                         *)
(*   part000  src/unnamed/part_000  (index + timestamp + text-line check)  *)
(*   part002  src/unnamed/part_002  (index + timestamp, no text check)     *)
(*   gemini   src/services/geminiService.ts:1-74 (= src/unnamed/part_001)  *)
(*   raw      src/services/geminiService.ts:178-238 (no normalizeSrt)      *)
(*   ass      src/services/geminiService.ts:77-175 (cleanAssOutput)        *)
(*                                                                         *)
(* A JavaScript string is a sequence of code units; a code unit is written *)
(* as a one-character TLA+ string, except the backtick ("bq") and U+FEFF   *)
(* ("bom"), which have no TLA+ spelling.                                   *)
(***************************************************************************)
EXTENDS Integers, Sequences, FiniteSets, TLC

\* ------------------------------------------------------------ code units
LF == "\n"
CR == "\r"
TAB == "\t"
SP == " "
BOM == "bom"
BQ == "bq"

\* JavaScript's \s class and the set String.prototype.trim strips
\* (restricted to the code units that occur in the model).
WhiteSpace == {SP, LF, CR, TAB, BOM}

\* \d
Digits == {"0", "1", "2", "3", "4", "5", "6", "7", "8", "9"}

\* [a-z] under the i flag
Letters ==
  {"a", "b", "c", "d", "e", "f", "g", "h", "i", "j", "k", "l", "m",
   "n", "o", "p", "q", "r", "s", "t", "u", "v", "w", "x", "y", "z",
   "A", "B", "C", "D", "E", "F", "G", "H", "I", "J", "K", "L", "M",
   "N", "O", "P", "Q", "R", "S", "T", "U", "V", "W", "X", "Y", "Z"}

\* ------------------------------------------------------ string primitives
Min(S) == CHOOSE x \in S : \A y \in S : x <= y
Max(S) == CHOOSE x \in S : \A y \in S : x >= y

\* The index just after the longest run of code units of class C that
\* starts at i (i itself when s[i] is not in C): a greedy X* at i.
RunEnd(s, i, C) ==
  LET N == {k \in i..Len(s) : s[k] \notin C}
  IN  IF N # {} THEN Min(N) ELSE IF i > Len(s) THEN i ELSE Len(s) + 1

\* The index of the last code unit not in C at or before i (0 when none).
RunStart(s, i, C) ==
  LET N == {k \in 1..i : s[k] \notin C}
  IN  IF N # {} THEN Max(N) ELSE IF i < 1 THEN i ELSE 0

\* s has pat at index i.
StartsWithAt(s, i, pat) ==
  /\ i >= 1
  /\ i + Len(pat) - 1 <= Len(s)
  /\ SubSeq(s, i, i + Len(pat) - 1) = pat

\* String.prototype.trim
trim(s) ==
  LET a == RunEnd(s, 1, WhiteSpace)
      b == RunStart(s, Len(s), WhiteSpace)
  IN  IF a > b THEN <<>> ELSE SubSeq(s, a, b)

\* String.prototype.includes
includes(s, pat) ==
  \E i \in 1..(Len(s) - Len(pat) + 1) : s[i] = pat[1] /\ StartsWithAt(s, i, pat)

\* Array.prototype.join
RECURSIVE join(_, _)
join(xs, sep) ==
  IF Len(xs) = 0 THEN <<>>
  ELSE IF Len(xs) = 1 THEN xs[1]
  ELSE xs[1] \o sep \o join(Tail(xs), sep)

\* s.split('\n'): the piece that starts at start, cut at the first line feed
\* at or after i, and the pieces after it.
RECURSIVE SplitLFFrom(_, _, _)
SplitLFFrom(s, start, i) ==
  LET N == {k \in i..Len(s) : s[k] = LF}
  IN  IF N = {} THEN <<SubSeq(s, start, Len(s))>>
      ELSE <<SubSeq(s, start, Min(N) - 1)>>
             \o SplitLFFrom(s, Min(N) + 1, Min(N) + 1)

SplitLF(s) == SplitLFFrom(s, 1, 1)

\* The last index of the match of /\n\s*\n/ that starts at i, 0 when there is
\* none: \s* is greedy and gives code units back until a \n ends the match.
BlankMatchEnd(s, i) ==
  IF s[i] # LF THEN 0
  ELSE LET j == RunEnd(s, i + 1, WhiteSpace)
           K == {k \in (i + 1)..(j - 1) : s[k] = LF}
       IN  IF K = {} THEN 0 ELSE Max(K)

\* s.split(/\n\s*\n/)
RECURSIVE SplitBlankFrom(_, _, _)
SplitBlankFrom(s, start, i) ==
  LET N == {k \in i..Len(s) : BlankMatchEnd(s, k) # 0}
  IN  IF N = {} THEN <<SubSeq(s, start, Len(s))>>
      ELSE LET e == BlankMatchEnd(s, Min(N))
           IN  <<SubSeq(s, start, Min(N) - 1)>>
                 \o SplitBlankFrom(s, e + 1, e + 1)

SplitBlank(s) == SplitBlankFrom(s, 1, 1)

\* `${n}` for a non-negative integer n
DigitChar(d) ==
  CASE d = 0 -> "0" [] d = 1 -> "1" [] d = 2 -> "2" [] d = 3 -> "3"
    [] d = 4 -> "4" [] d = 5 -> "5" [] d = 6 -> "6" [] d = 7 -> "7"
    [] d = 8 -> "8" [] d = 9 -> "9"

RECURSIVE NumberToString(_)
NumberToString(n) ==
  IF n < 10 THEN <<DigitChar(n)>>
  ELSE NumberToString(n \div 10) \o <<DigitChar(n % 10)>>

\* ---------------------------------------------------------- normalizeSrt
ArrowSp == <<SP, "-", "-", ">", SP>>
Arrow == <<"-", "-", ">">>

\* timestampLineIndex with the first line taken as the index: only the
\* second line is looked at.
timestampLineIndex_afterIndex(lines) ==
  IF Len(lines) >= 2 /\ includes(lines[2], ArrowSp) THEN 1 ELSE -1

\* lines.findIndex(l => l.includes(' --> ')), 0-based, -1 when none
timestampLineIndex(lines) ==
  LET I == {i \in 1..Len(lines) : includes(lines[i], ArrowSp)}
  IN  IF I = {} THEN -1 ELSE Min(I) - 1

\* lines.slice(k)
slice(lines, k) == SubSeq(lines, k + 1, Len(lines))

NoCue == [ok |-> FALSE, timestamps |-> <<>>, textLines |-> <<>>]

\* parseEntry_part000 with the text taken from the timestamp line on
\* (lines.slice(timestampLineIndex) for lines.slice(timestampLineIndex + 1)).
parseEntry_sliceFromTimestamp(entry) ==
  LET lines == SplitLF(trim(entry))
      tli == timestampLineIndex(lines)
  IN  IF tli = -1 THEN NoCue
      ELSE [ok |-> TRUE, timestamps |-> lines[tli + 1],
            textLines |-> slice(lines, tli)]

\* The locals of the map callback of part_000: the timestamp line and the
\* text lines of an entry, or NoCue where the callback returns ''.
parseEntry_part000(entry) ==
  LET lines == SplitLF(trim(entry))
      tli == timestampLineIndex(lines)
  IN  IF tli = -1 THEN NoCue
      ELSE IF Len(slice(lines, tli + 1)) = 0 THEN NoCue
      ELSE [ok |-> TRUE, timestamps |-> lines[tli + 1],
            textLines |-> slice(lines, tli + 1)]

\* The same callback in part_002, which has no text-line check.
parseEntry_part002(entry) ==
  LET lines == SplitLF(trim(entry))
      tli == timestampLineIndex(lines)
  IN  IF tli = -1 THEN NoCue
      ELSE [ok |-> TRUE, timestamps |-> lines[tli + 1],
            textLines |-> slice(lines, tli + 1)]

\* `${index + 1}\n${timestamps}\n${textLines.join('\n')}\n`, '' for NoCue;
\* index is the 0-based position of the entry among all entries.
formatEntry(cue, index) ==
  IF ~cue.ok THEN <<>>
  ELSE NumberToString(index + 1) \o <<LF>> \o cue.timestamps \o <<LF>>
       \o join(cue.textLines, <<LF>>) \o <<LF>>

\* content.trim().split(/\n\s*\n/)
entriesOf(content) == SplitBlank(trim(content))

\* .filter(Boolean) on an array of strings
filterBoolean(xs) == SelectSeq(xs, LAMBDA x : x # <<>>)

normalizeSrt_part000(content) ==
  LET entries == entriesOf(content)
  IN  join(filterBoolean([i \in 1..Len(entries) |->
             formatEntry(parseEntry_part000(entries[i]), i - 1)]), <<LF>>)

normalizeSrt_part002(content) ==
  LET entries == entriesOf(content)
  IN  join(filterBoolean([i \in 1..Len(entries) |->
             formatEntry(parseEntry_part002(entries[i]), i - 1)]), <<LF>>)

\* geminiService.ts:9-16 and part_001:7-14: blocks are trimmed, the empty
\* ones dropped, the rest joined by a blank line and closed by one.
normalizeSrt_gemini(content) ==
  LET blocks == entriesOf(content)
  IN  join(filterBoolean([i \in 1..Len(blocks) |-> trim(blocks[i])]),
           <<LF, LF>>) \o <<LF, LF>>

\* The cues an SRT normalizer keeps, in order (the entries the map callback
\* does not turn into '').
cuesOf_part000(content) ==
  LET entries == entriesOf(content)
  IN  SelectSeq([i \in 1..Len(entries) |-> parseEntry_part000(entries[i])],
                LAMBDA c : c.ok)

cuesOf_part002(content) ==
  LET entries == entriesOf(content)
  IN  SelectSeq([i \in 1..Len(entries) |-> parseEntry_part002(entries[i])],
                LAMBDA c : c.ok)

\* ------------------------------------------------------------- sanitizing
Fence == <<BQ, BQ, BQ>>
FenceSrt == <<BQ, BQ, BQ, "s", "r", "t">>

\* s.replace(/pat/g, '') for a literal pat, from index i on: matches are
\* taken left to right and do not overlap.
RECURSIVE removeAllFrom(_, _, _)
removeAllFrom(s, pat, i) ==
  LET N == {k \in i..Len(s) : StartsWithAt(s, k, pat)}
  IN  IF N = {} THEN SubSeq(s, i, Len(s))
      ELSE SubSeq(s, i, Min(N) - 1) \o removeAllFrom(s, pat, Min(N) + Len(pat))

removeAll(s, pat) == removeAllFrom(s, pat, 1)

\* The index just after the match of /```[a-z]*\n?/i at i: the three
\* backticks, every letter that follows, and one line feed if it is next.
fenceLangEnd(s, i) ==
  LET j == RunEnd(s, i + 3, Letters)
  IN  IF j <= Len(s) /\ s[j] = LF THEN j + 1 ELSE j

\* s.replace(/```[a-z]*\n?/gi, "")
RECURSIVE removeFenceLangFrom(_, _)
removeFenceLangFrom(s, i) ==
  LET N == {k \in i..Len(s) : StartsWithAt(s, k, Fence)}
  IN  IF N = {} THEN SubSeq(s, i, Len(s))
      ELSE SubSeq(s, i, Min(N) - 1)
             \o removeFenceLangFrom(s, fenceLangEnd(s, Min(N)))

\* removeFenceLang without the language tag: /```\n?/g for /```[a-z]*\n?/gi.
RECURSIVE removeFenceNoLangFrom(_, _)
removeFenceNoLangFrom(s, i) ==
  LET N == {k \in i..Len(s) : StartsWithAt(s, k, Fence)}
  IN  IF N = {} THEN SubSeq(s, i, Len(s))
      ELSE LET k == Min(N)
           IN  SubSeq(s, i, k - 1)
                 \o removeFenceNoLangFrom(s,
                      IF k + 3 <= Len(s) /\ s[k + 3] = LF THEN k + 4 ELSE k + 3)

removeFenceNoLang(s) == removeFenceNoLangFrom(s, 1)

removeFenceLang(s) == removeFenceLangFrom(s, 1)

\* s.replace(/^\s+/, "")
removeLeadingWs(s) == SubSeq(s, RunEnd(s, 1, WhiteSpace), Len(s))

\* geminiService.ts:62-65 (part_001:60-63):
\* rawText.replace(/```[a-z]*\n?/gi, "").replace(/```/g, "").trim()
cleanFences_gemini(rawText) == trim(removeAll(removeFenceLang(rawText), Fence))

\* part_000:74-77, part_002:65-68, geminiService.ts:232-235:
\* cleanedSrt.replace(/```srt/g, '').replace(/```/g, '').trim()
cleanFences_part000(cleanedSrt) ==
  trim(removeAll(removeAll(cleanedSrt, FenceSrt), Fence))

\* geminiService.ts:83-89
cleanAssOutput(text) ==
  trim(removeLeadingWs(removeAll(removeFenceLang(text), Fence)))

\* \d{2}:\d{2}:\d{2},\d{3} at index i
timestampAt(s, i) ==
  /\ i + 11 <= Len(s)
  /\ \A k \in {0, 1, 3, 4, 6, 7, 9, 10, 11} : s[i + k] \in Digits
  /\ s[i + 2] = ":"
  /\ s[i + 5] = ":"
  /\ s[i + 8] = ","

\* /\d+\s+\d{2}:\d{2}:\d{2},\d{3}\s+-->\s+\d{2}:\d{2}:\d{2},\d{3}/ matches at
\* index i.  Each greedy run is followed by a code unit outside its class, so
\* the match takes every run whole and backtracking finds nothing else.
cueOpeningAt(s, i) ==
  /\ s[i] \in Digits
  /\ LET a == RunEnd(s, i, Digits)
         b == RunEnd(s, a, WhiteSpace)
         c == RunEnd(s, b + 12, WhiteSpace)
         d == RunEnd(s, c + 3, WhiteSpace)
     IN  /\ b > a
         /\ timestampAt(s, b)
         /\ c > b + 12
         /\ StartsWithAt(s, c, Arrow)
         /\ d > c + 3
         /\ timestampAt(s, d)

\* The index of the leftmost match, 0 when the regular expression does not
\* match anywhere at or after i.
srtMatchIndexFrom(s, i) ==
  LET N == {k \in i..Len(s) : cueOpeningAt(s, k)}
  IN  IF N = {} THEN 0 ELSE Min(N)

\* extractSrt with the fallback lost: srtMatch ? srtMatch[0] : '' .
extractSrt_emptyOnNoMatch(rawText) ==
  LET i == srtMatchIndexFrom(rawText, 1)
  IN  IF i = 0 THEN <<>> ELSE SubSeq(rawText, i, Len(rawText))

\* srtMatch ? srtMatch[0] : rawText   ([\s\S]* takes the rest of the text)
extractSrt(rawText) ==
  LET i == srtMatchIndexFrom(rawText, 1)
  IN  IF i = 0 THEN rawText ELSE SubSeq(rawText, i, Len(rawText))

\* ------------------------------------------- mergeVideoAndSubtitles: subs.srt
\* s.replace(/^\uFEFF/, '')
removeLeadingBom(s) == IF Len(s) >= 1 /\ s[1] = BOM THEN Tail(s) ELSE s

\* s.replace(/\r\n/g, '\n')
RECURSIVE replaceCRLFFrom(_, _)
replaceCRLFFrom(s, i) ==
  LET N == {k \in i..Len(s) : StartsWithAt(s, k, <<CR, LF>>)}
  IN  IF N = {} THEN SubSeq(s, i, Len(s))
      ELSE SubSeq(s, i, Min(N) - 1) \o <<LF>> \o replaceCRLFFrom(s, Min(N) + 2)

replaceCRLF(s) == replaceCRLFFrom(s, 1)

\* s.replace(/\r/g, '\n')
replaceCR(s) == [i \in 1..Len(s) |-> IF s[i] = CR THEN LF ELSE s[i]]

\* new TextEncoder().encode(s): UTF-8; U+FEFF becomes the bytes EF BB BF, the
\* other code units of the model are ASCII and become one byte each.
RECURSIVE encode(_)
encode(s) ==
  LET N == {k \in 1..Len(s) : s[k] = BOM}
  IN  IF N = {} THEN s
      ELSE SubSeq(s, 1, Min(N) - 1) \o <<"ef", "bb", "bf">>
             \o encode(SubSeq(s, Min(N) + 1, Len(s)))

\* ffmpegService.ts:52-56: cleanSrt
cleanSrt_ffmpegService(srt) ==
  trim(replaceCR(replaceCRLF(removeLeadingBom(srt)))) \o <<LF, LF>>

\* part_004:51: normalizedSrt
normalizedSrt_part004(srt) == replaceCR(replaceCRLF(srt))

\* part_004:52: !normalizedSrt || normalizedSrt.length < 10
MinSrtLength == 10

\* rejected_part004 with the limit a digit too long (length < 100).
rejected_shorterThan100(normalizedSrt) == Len(normalizedSrt) < 100

rejected_part004(normalizedSrt) == Len(normalizedSrt) < MinSrtLength

\* ----------------------------------------------------------------- inputs
\* The texts the functions are applied to are built from blocks: documents of
\* up to MaxBlocks blocks, bare, fenced, or after a preamble.
MaxBlocks == 2

TS1 == <<"0", "0", ":", "0", "0", ":", "0", "1", ",", "0", "0", "0">>
TS2 == <<"0", "0", ":", "0", "0", ":", "0", "2", ",", "5", "0", "0">>
Timing == TS1 \o ArrowSp \o TS2
TextHi == <<"H", "i">>
TextQuoted == <<BQ, "a", BQ>>
TextHiSp == <<"H", "i", SP>>
TextTicks == <<"a", BQ, BQ, BQ, "b">>
TextNo == <<"N", "o">>

BlockKinds ==
  {"cue1", "cue2", "cueSp", "noIndex", "textOnly", "tsOnly", "cueTicks"}

\* The block of a kind at position pos (1-based) of a document.
Block(kind, pos) ==
  CASE kind = "cue1" ->
         NumberToString(pos) \o <<LF>> \o Timing \o <<LF>> \o TextHi
    [] kind = "cue2" ->
         NumberToString(pos) \o <<LF>> \o Timing \o <<LF>> \o TextHi
           \o <<LF>> \o TextQuoted
    [] kind = "cueSp" ->
         NumberToString(pos) \o <<LF>> \o Timing \o <<LF>> \o TextHiSp
    [] kind = "noIndex" -> Timing \o <<LF>> \o TextHi
    [] kind = "textOnly" -> TextNo
    [] kind = "tsOnly" -> NumberToString(pos) \o <<LF>> \o Timing
    [] kind = "cueTicks" -> <<"7", LF>> \o Timing \o <<LF>> \o TextTicks

KindSeqs == UNION {[1..n -> BlockKinds] : n \in 0..MaxBlocks}

BlocksOf(ks) == [i \in 1..Len(ks) |-> Block(ks[i], i)]

Doc(ks) == join(BlocksOf(ks), <<LF, LF>>)

FenceOpen == FenceSrt \o <<LF>>
FenceClose == <<LF>> \o Fence

\* ```srt\n<body>\n```
Fenced(body) == FenceOpen \o body \o FenceClose

PreambleHere == <<"H", "e", "r", "e", ":", LF>>
PreambleInline == <<"C", "u", "e", SP, "7", SP>> \o Timing \o <<SP, "o", "k", LF>>

\* '[Events]' (geminiService.ts:153)
EventsHeader == <<"[", "E", "v", "e", "n", "t", "s", "]">>

\* The section headers and lines of the TEMPLATE of the system instruction
\* (geminiService.ts:118-129), with one field of each list.
ScriptInfoHeader ==
  <<"[", "S", "c", "r", "i", "p", "t", SP, "I", "n", "f", "o", "]">>
StylesHeader == <<"[", "V", "4", "+", SP, "S", "t", "y", "l", "e", "s", "]">>
ScriptInfoSection ==
  <<"[", "S", "c", "r", "i", "p", "t", SP, "I", "n", "f", "o", "]", LF, "P",
    "l", "a", "y", "R", "e", "s", "X", ":", SP, "1", "9", "2", "0", LF>>
StylesSection ==
  <<"[", "V", "4", "+", SP, "S", "t", "y", "l", "e", "s", "]", LF, "F", "o",
    "r", "m", "a", "t", ":", SP, "N", "a", "m", "e", LF, "S", "t", "y", "l",
    "e", ":", SP, "D", "e", "f", "a", "u", "l", "t", LF>>
EventsSection ==
  <<"[", "E", "v", "e", "n", "t", "s", "]", LF, "F", "o", "r", "m", "a",
    "t", ":", SP, "T", "e", "x", "t", LF>>
DialoguePrefix == <<"D", "i", "a", "l", "o", "g", "u", "e", ":">>
FormatPrefix == <<"F", "o", "r", "m", "a", "t", ":">>
DialogueLine ==
  <<"D", "i", "a", "l", "o", "g", "u", "e", ":", SP, "0", ",", "H", "i", LF>>
FenceAss == <<BQ, BQ, BQ, "a", "s", "s", LF>>

\* Texts a model call returns for the ASS prompt: the whole template with an
\* event, the same in a fence, documents that lack sections, events or the
\* section header, and commentary.
AssFull == ScriptInfoSection \o StylesSection \o EventsSection \o DialogueLine
AssFenced == FenceAss \o AssFull \o Fence
AssNoStyles == ScriptInfoSection \o EventsSection \o DialogueLine
AssEventsOnly == EventsSection \o DialogueLine
AssNoDialogue == ScriptInfoSection \o StylesSection \o EventsSection
AssDialogueOnly == DialogueLine

AssResponses ==
  {AssFull, AssFenced, AssNoStyles, AssEventsOnly, AssNoDialogue,
   AssDialogueOnly, TextNo, <<>>}

\* The text as a Windows editor saves it: a byte-order mark first and every
\* line ended by \r\n.
Windows(text) ==
  <<BOM>> \o join(SplitLF(text), <<CR, LF>>)

\* A timing line written without spaces around the arrow, a cue with it, and
\* the text of a clean cue followed by one (two blocks, closed by a line feed).
TimingNoSp == TS1 \o Arrow \o TS2
CueNoSp(pos) == NumberToString(pos) \o <<LF>> \o TimingNoSp \o <<LF>> \o TextHi
TwoBlockNoSp == Block("cue2", 1) \o <<LF, LF>> \o CueNoSp(2) \o <<LF>>

\* A cue whose index line is written twice, alone and after a clean cue.
CueDupIndex(pos) ==
  NumberToString(pos) \o <<LF>> \o NumberToString(pos) \o <<LF>> \o Timing
    \o <<LF>> \o TextHi \o <<LF>> \o TextQuoted
DupIndexDocs ==
  {CueDupIndex(1), Block("cue1", 1) \o <<LF, LF>> \o CueDupIndex(2) \o <<LF>>}

Inputs ==
  {Doc(ks) \o t : ks \in KindSeqs, t \in {<<>>, <<LF, LF>>}}
    \cup {Fenced(Doc(ks)) : ks \in KindSeqs}
    \cup {join([i \in 1..Len(ks) |-> Fenced(BlocksOf(ks)[i])], <<LF>>) :
            ks \in KindSeqs}
    \cup {PreambleHere \o Doc(ks) : ks \in KindSeqs}
    \cup {PreambleInline \o Doc(ks) : ks \in KindSeqs}
    \cup {Windows(Doc(ks) \o <<LF>>) : ks \in KindSeqs}
    \cup AssResponses
    \cup {TwoBlockNoSp, CueNoSp(1)}
    \cup DupIndexDocs

\* The documents a caller passes as srtContent: processWorkflow returns early
\* on an empty one.
Originals == {Doc(<<"cue1">>) \o <<LF>>, TextNo \o <<LF>>}

\* ---------------------------------------------------------------- state
VARIABLES
  input,       \* the text the function is applied to: content of normalizeSrt
               \* (part_000:7), response.text of translateSubtitles
               \* (part_000:65), text of cleanAssOutput (geminiService.ts:83)
  srtContent,  \* the srtContent argument of translateSubtitles (part_000:25)
  op,          \* the function that ran
  extracted,   \* srtMatch ? srtMatch[0] : rawText (part_000:72)
  cleaned,     \* the text after the fence replaces and trim() (part_000:74-77,
               \* geminiService.ts:62-65, 84-88)
  cues,        \* timestamps and textLines of the entries the normalizer kept
               \* (part_000:14-15)
  result,      \* the returned string (part_000:85)
  threw,       \* the function threw instead of returning (part_000:66-68)
  pc           \* "start" before the function runs, "done" after it

textVars == <<input, srtContent, op, extracted, cleaned, cues, result, threw, pc>>

\* The state of the translate-then-merge workflow: two runs of
\* processWorkflow (jobs) over the module-level FFmpeg instance.
VARIABLES
  tVersion,    \* the translateSubtitles the build imports (part_005:4)
  mVersion,    \* the mergeVideoAndSubtitles the build imports (part_005:5)
  ffmpeg,      \* let ffmpeg: FFmpeg | null (ffmpegService.ts:5) and whether
               \* its load() has completed (ffmpegService.ts:18)
  fs,          \* the files of the instance's virtual file system: input.mp4,
               \* subs.srt, output.mp4 (ffmpegService.ts:49, 58, 107)
  jpc,         \* where each job stands in processWorkflow (part_005:88-126)
               \* and in mergeVideoAndSubtitles (ffmpegService.ts:29-127)
  jsrt,        \* bilingualSrt of each job (part_005:102)
  jdata,       \* data of each job: what readFile('output.mp4') gave it
               \* (ffmpegService.ts:115)
  execCount,   \* the number of ffmpegInstance.exec calls that ran
               \* (ffmpegService.ts:96)
  listeners,   \* the jobs whose onLog and onProgress the instance holds as
               \* 'log' and 'progress' listeners, one entry for each pair
               \* of ffmpegInstance.on calls (ffmpegService.ts:37-44)
  lastEvent    \* the progress event the encoder emitted last: the job whose
               \* exec emitted it and the jobs whose onProgress it invoked

jobVars ==
  <<tVersion, mVersion, ffmpeg, fs, jpc, jsrt, jdata, execCount, listeners,
    lastEvent>>

\* The state of one call of the ASS translateSubtitles
\* (geminiService.ts:100-175) and what its collaborators saw of it.
VARIABLES
  apc,         \* where the call stands: "attempt" (top of the loop body,
               \* line 135), "sleeping" (line 140), "calling" (line 143),
               \* "returned" (line 157), "threw" (line 174)
  attempt,     \* let attempt (geminiService.ts:135)
  lastError,   \* lastError.message (geminiService.ts:132, 159)
  calls,       \* the number of ai.models.generateContent calls made so far
  outcomes,    \* what each of these calls gave: ok and the response text, or
               \* not ok and the message of the error
  retries,     \* the arguments onRetry was called with, in order (line 137)
  sleeps       \* the delays sleep was called with, in order (line 139)

assVars == <<apc, attempt, lastError, calls, outcomes, retries, sleeps>>

\* The state of the App component (App.tsx, its copy in
\* ffmpegService.ts:784-1147, part_005).
VARIABLES
  aVersion,            \* the component: "App", "AppCopy" or "part_005"
  videoFile,           \* videoFile?.name, NoVideo for null (App.tsx:9)
  originalSrtContent,  \* App.tsx:11
  targetLanguage,      \* App.tsx:13
  status,              \* step and progress of status (App.tsx:14-18)
  resultVideoUrl,      \* whether resultVideoUrl is set (App.tsx:20)
  lastProcessedKey,    \* lastProcessedKey.current (App.tsx:28)
  readers,             \* the FileReaders that have not loaded yet, each with
                       \* its file's content and what the test of line 77
                       \* gives on the status its onload closure captured
                       \* (App.tsx:72-82)
  runs,                \* the calls of processWorkflow: where each stands, the
                       \* steps it set, its calls of mergeVideoAndSubtitles
  nRuns                \* the number of calls of processWorkflow so far

appVars ==
  <<aVersion, videoFile, originalSrtContent, targetLanguage, status,
    resultVideoUrl, lastProcessedKey, readers, runs, nRuns>>

vars == <<textVars, jobVars, assVars, appVars>>

Jobs == {1, 2}

NoFile == [exists |-> FALSE, data |-> <<>>]
File(data) == [exists |-> TRUE, data |-> data]

\* No event emitted yet.
NoEvent == [by |-> 0, invoked |-> <<>>]

\* No workflow: the state of the job variables while the functions are
\* applied on their own.
JobsOff ==
  /\ tVersion = "none"
  /\ mVersion = "none"
  /\ ffmpeg = "null"
  /\ fs = [input |-> NoFile, subs |-> NoFile, output |-> NoFile]
  /\ jpc = [j \in Jobs |-> "idle"]
  /\ jsrt = [j \in Jobs |-> <<>>]
  /\ jdata = [j \in Jobs |-> <<>>]
  /\ execCount = 0
  /\ listeners = <<>>
  /\ lastEvent = NoEvent

\* The bound of the model on the calls of processWorkflow in a session.
MaxRuns == 3

NoVideo == "null"
NoKey == <<>>
NoRun == [pc |-> "none", steps |-> <<>>, merges |-> 0, translated |-> FALSE]

\* No App component mounted.
AppOff ==
  /\ aVersion = "none"
  /\ videoFile = NoVideo
  /\ originalSrtContent = <<>>
  /\ targetLanguage = "none"
  /\ status = [step |-> "idle", progress |-> 0]
  /\ resultVideoUrl = FALSE
  /\ lastProcessedKey = NoKey
  /\ readers = <<>>
  /\ runs = [r \in 1..MaxRuns |-> NoRun]
  /\ nRuns = 0

\* let lastError: any = null (geminiService.ts:132)
NoError == <<"null">>
\* No call of the ASS translateSubtitles under way.
AssOff ==
  /\ apc = "off"
  /\ attempt = 0
  /\ lastError = NoError
  /\ calls = 0
  /\ outcomes = <<>>
  /\ retries = <<>>
  /\ sleeps = <<>>

Init ==
  /\ input \in Inputs
  /\ srtContent = <<>>
  /\ op = "none"
  /\ extracted = <<>>
  /\ cleaned = <<>>
  /\ cues = <<>>
  /\ result = <<>>
  /\ threw = FALSE
  /\ pc = "start"
  /\ JobsOff
  /\ AssOff
  /\ AppOff

\* normalizeSrt(content) of part_000
NormalizeSrt_part000 ==
  /\ pc = "start"
  /\ op' = "normalizeSrt_part000"
  /\ cues' = cuesOf_part000(input)
  /\ result' = normalizeSrt_part000(input)
  /\ pc' = "done"
  /\ UNCHANGED <<jobVars, assVars, appVars>>
  /\ UNCHANGED <<input, srtContent, extracted, cleaned, threw>>

\* normalizeSrt(content) of part_002
NormalizeSrt_part002 ==
  /\ pc = "start"
  /\ op' = "normalizeSrt_part002"
  /\ cues' = cuesOf_part002(input)
  /\ result' = normalizeSrt_part002(input)
  /\ pc' = "done"
  /\ UNCHANGED <<jobVars, assVars, appVars>>
  /\ UNCHANGED <<input, srtContent, extracted, cleaned, threw>>

\* normalizeSrt(content) of geminiService.ts and part_001
NormalizeSrt_gemini ==
  /\ pc = "start"
  /\ op' = "normalizeSrt_gemini"
  /\ result' = normalizeSrt_gemini(input)
  /\ pc' = "done"
  /\ UNCHANGED <<jobVars, assVars, appVars>>
  /\ UNCHANGED <<input, srtContent, extracted, cleaned, cues, threw>>

\* translateSubtitles of part_000 from the point where the model call has
\* returned response.text = input.
TranslateSubtitles_part000 ==
  /\ pc = "start"
  /\ op' = "translateSubtitles_part000"
  /\ \E s \in Originals : srtContent' = s
  /\ IF input = <<>>
     THEN /\ threw' = TRUE
          /\ UNCHANGED <<extracted, cleaned, cues, result>>
     ELSE /\ threw' = FALSE
          /\ extracted' = extractSrt(input)
          /\ cleaned' = cleanFences_part000(extracted')
          /\ cues' = cuesOf_part000(cleaned')
          /\ result' = normalizeSrt_part000(cleaned')
  /\ pc' = "done"
  /\ UNCHANGED <<jobVars, assVars, appVars>>
  /\ UNCHANGED input

\* translateSubtitles of part_002
TranslateSubtitles_part002 ==
  /\ pc = "start"
  /\ op' = "translateSubtitles_part002"
  /\ \E s \in Originals : srtContent' = s
  /\ IF input = <<>>
     THEN /\ threw' = TRUE
          /\ UNCHANGED <<extracted, cleaned, cues, result>>
     ELSE /\ threw' = FALSE
          /\ extracted' = extractSrt(input)
          /\ cleaned' = cleanFences_part000(extracted')
          /\ cues' = cuesOf_part002(cleaned')
          /\ result' = normalizeSrt_part002(cleaned')
  /\ pc' = "done"
  /\ UNCHANGED <<jobVars, assVars, appVars>>
  /\ UNCHANGED input

\* TranslateSubtitles_gemini with the fallback lost: the model output is
\* normalized whatever it holds.
TranslateSubtitles_gemini_noFallback ==
  /\ pc = "start"
  /\ op' = "translateSubtitles_gemini"
  /\ \E s \in Originals : srtContent' = s
  /\ cleaned' = cleanFences_gemini(input)
  /\ result' = normalizeSrt_gemini(cleaned')
  /\ pc' = "done"
  /\ UNCHANGED <<jobVars, assVars, appVars>>
  /\ UNCHANGED <<input, extracted, cues, threw>>

\* translateSubtitles of geminiService.ts:21-74 and part_001: no extraction;
\* an empty or arrow-less cleaned text falls back to the caller's srtContent.
TranslateSubtitles_gemini ==
  /\ pc = "start"
  /\ op' = "translateSubtitles_gemini"
  /\ \E s \in Originals : srtContent' = s
  /\ cleaned' = cleanFences_gemini(input)
  /\ result' = IF cleaned' = <<>> \/ ~includes(cleaned', Arrow)
               THEN normalizeSrt_gemini(srtContent')
               ELSE normalizeSrt_gemini(cleaned')
  /\ pc' = "done"
  /\ UNCHANGED <<jobVars, assVars, appVars>>
  /\ UNCHANGED <<input, extracted, cues, threw>>

\* translateSubtitles of geminiService.ts:181-238: extraction and cleaning,
\* no normalizeSrt.
TranslateSubtitles_raw ==
  /\ pc = "start"
  /\ op' = "translateSubtitles_raw"
  /\ \E s \in Originals : srtContent' = s
  /\ IF input = <<>>
     THEN /\ threw' = TRUE
          /\ UNCHANGED <<extracted, cleaned, result>>
     ELSE /\ threw' = FALSE
          /\ extracted' = extractSrt(input)
          /\ cleaned' = cleanFences_part000(extracted')
          /\ result' = cleaned'
  /\ pc' = "done"
  /\ UNCHANGED <<jobVars, assVars, appVars>>
  /\ UNCHANGED <<input, cues>>

\* cleanAssOutput(text)
CleanAssOutput ==
  /\ pc = "start"
  /\ op' = "cleanAssOutput"
  /\ cleaned' = cleanAssOutput(input)
  /\ result' = cleaned'
  /\ pc' = "done"
  /\ UNCHANGED <<jobVars, assVars, appVars>>
  /\ UNCHANGED <<input, srtContent, extracted, cues, threw>>

\* translateSubtitles of geminiService.ts:100-175 from the point where a model
\* call has returned response.text = input: a text without '[Events]' throws
\* an error that is not retryable, so the loop ends and the function throws;
\* any other text is returned through cleanAssOutput.
TranslateSubtitles_ass ==
  /\ pc = "start"
  /\ op' = "translateSubtitles_ass"
  /\ \E s \in Originals : srtContent' = s
  /\ IF ~includes(input, EventsHeader)
     THEN /\ threw' = TRUE
          /\ UNCHANGED <<cleaned, result>>
     ELSE /\ threw' = FALSE
          /\ cleaned' = cleanAssOutput(input)
          /\ result' = cleaned'
  /\ pc' = "done"
  /\ UNCHANGED <<jobVars, assVars, appVars>>
  /\ UNCHANGED <<input, extracted, cues>>

\* mergeVideoAndSubtitles of ffmpegService.ts, lines 51-58: result is the
\* content written to subs.srt for srtContent = input.
WriteSubs_ffmpegService ==
  /\ pc = "start"
  /\ op' = "writeSubs_ffmpegService"
  /\ cleaned' = cleanSrt_ffmpegService(input)
  /\ result' = encode(cleaned')
  /\ pc' = "done"
  /\ UNCHANGED <<jobVars, assVars, appVars>>
  /\ UNCHANGED <<input, srtContent, extracted, cues, threw>>

\* mergeVideoAndSubtitles of part_004, lines 50-56: a normalizedSrt shorter
\* than 10 code units throws before anything is written.
WriteSubs_part004 ==
  /\ pc = "start"
  /\ op' = "writeSubs_part004"
  /\ cleaned' = normalizedSrt_part004(input)
  /\ IF rejected_part004(cleaned')
     THEN threw' = TRUE /\ UNCHANGED result
     ELSE threw' = FALSE /\ result' = encode(cleaned')
  /\ pc' = "done"
  /\ UNCHANGED <<jobVars, assVars, appVars>>
  /\ UNCHANGED <<input, srtContent, extracted, cues>>

\* mergeVideoAndSubtitles of part_003, line 49: srtContent is written as it is.
WriteSubs_part003 ==
  /\ pc = "start"
  /\ op' = "writeSubs_part003"
  /\ result' = encode(input)
  /\ pc' = "done"
  /\ UNCHANGED <<jobVars, assVars, appVars>>
  /\ UNCHANGED <<input, srtContent, extracted, cleaned, cues, threw>>

Next ==
  \/ NormalizeSrt_part000
  \/ NormalizeSrt_part002
  \/ NormalizeSrt_gemini
  \/ TranslateSubtitles_part000
  \/ TranslateSubtitles_part002
  \/ TranslateSubtitles_gemini
  \/ TranslateSubtitles_raw
  \/ CleanAssOutput
  \/ TranslateSubtitles_ass
  \/ WriteSubs_ffmpegService
  \/ WriteSubs_part004
  \/ WriteSubs_part003

Spec == Init /\ [][Next]_vars

\* ------------------------------------------------ translate, then merge
TranslateVersions == {"part000", "part002", "gemini", "raw", "ass"}
MergeVersions == {"ffmpegService", "part004", "part003"}

\* videoFile and srtContent of each job, and the texts a model call returns.
VideoOf(j) == <<"video", j>>
OriginalOf(j) ==
  IF j = 1 THEN Doc(<<"cue1">>) \o <<LF>> ELSE Doc(<<"cue2">>) \o <<LF>>
WfResponses ==
  {Doc(<<"cue1">>), Doc(<<"cue2">>), TextNo, AssEventsOnly, <<>>}

InitJobs ==
  /\ input = <<>>
  /\ srtContent = <<>>
  /\ op = "none"
  /\ extracted = <<>>
  /\ cleaned = <<>>
  /\ cues = <<>>
  /\ result = <<>>
  /\ threw = FALSE
  /\ pc = "start"
  /\ tVersion \in TranslateVersions
  /\ mVersion \in MergeVersions
  /\ ffmpeg = "null"
  /\ fs = [input |-> NoFile, subs |-> NoFile, output |-> NoFile]
  /\ jpc = [j \in Jobs |-> "idle"]
  /\ jsrt = [j \in Jobs |-> <<>>]
  /\ jdata = [j \in Jobs |-> <<>>]
  /\ execCount = 0
  /\ listeners = <<>>
  /\ lastEvent = NoEvent
  /\ AssOff
  /\ AppOff

\* processWorkflow up to the call of translateSubtitles (part_005:88-102);
\* videoFile and srtContent are set, so the guard of line 89 passes.
StartWorkflow(j) ==
  /\ jpc[j] = "idle"
  /\ jpc' = [jpc EXCEPT ![j] = "translating"]
  /\ UNCHANGED <<textVars, tVersion, mVersion, ffmpeg, fs, jsrt, jdata, execCount>>
  /\ UNCHANGED <<assVars, appVars>>
  /\ UNCHANGED <<listeners, lastEvent>>

\* The model call returns r: translateSubtitles of the build runs on it as in
\* the actions above (input, extracted, cleaned, result and threw are the
\* locals of the call that ran last).  It returns bilingualSrt and the
\* workflow calls mergeVideoAndSubtitles (part_005:102-109), or it throws and
\* the workflow ends in the catch of part_005:120.
TranslateReturns(j) ==
  /\ jpc[j] = "translating"
  /\ \E r \in WfResponses : input' = r
  /\ srtContent' = OriginalOf(j)
  /\ op' = "translateSubtitles"
  /\ threw' = CASE tVersion \in {"part000", "part002", "raw"} -> input' = <<>>
                [] tVersion = "gemini" -> FALSE
                [] tVersion = "ass" -> ~includes(input', EventsHeader)
  /\ extracted' = IF tVersion \in {"part000", "part002", "raw"} /\ ~threw'
                  THEN extractSrt(input') ELSE <<>>
  /\ cleaned' = CASE threw' -> <<>>
                  [] ~threw' /\ tVersion \in {"part000", "part002", "raw"} ->
                       cleanFences_part000(extracted')
                  [] ~threw' /\ tVersion = "gemini" -> cleanFences_gemini(input')
                  [] ~threw' /\ tVersion = "ass" -> cleanAssOutput(input')
  /\ result' = CASE threw' -> <<>>
                 [] ~threw' /\ tVersion = "part000" -> normalizeSrt_part000(cleaned')
                 [] ~threw' /\ tVersion = "part002" -> normalizeSrt_part002(cleaned')
                 [] ~threw' /\ tVersion = "gemini" ->
                      IF cleaned' = <<>> \/ ~includes(cleaned', Arrow)
                      THEN normalizeSrt_gemini(srtContent')
                      ELSE normalizeSrt_gemini(cleaned')
                 [] ~threw' /\ tVersion \in {"raw", "ass"} -> cleaned'
  /\ IF threw'
     THEN jpc' = [jpc EXCEPT ![j] = "error"] /\ UNCHANGED jsrt
     ELSE /\ jpc' = [jpc EXCEPT ![j] = "getFFmpeg"]
          /\ jsrt' = [jsrt EXCEPT ![j] = result']
  /\ UNCHANGED <<cues, pc, tVersion, mVersion, ffmpeg, fs, jdata, execCount>>
  /\ UNCHANGED <<assVars, appVars>>
  /\ UNCHANGED <<listeners, lastEvent>>

\* The model call rejects: translateSubtitles throws.
TranslateFails(j) ==
  /\ jpc[j] = "translating"
  /\ jpc' = [jpc EXCEPT ![j] = "error"]
  /\ UNCHANGED <<textVars, tVersion, mVersion, ffmpeg, fs, jsrt, jdata, execCount>>
  /\ UNCHANGED <<assVars, appVars>>
  /\ UNCHANGED <<listeners, lastEvent>>

\* getFFmpeg up to its await (ffmpegService.ts:10-18): an instance that is
\* set is returned as it is, loaded or not; otherwise one is created and
\* its load awaited.
GetFFmpeg(j) ==
  /\ jpc[j] = "getFFmpeg"
  /\ IF ffmpeg # "null"
     THEN jpc' = [jpc EXCEPT ![j] = "writeInput"] /\ UNCHANGED ffmpeg
     ELSE jpc' = [jpc EXCEPT ![j] = "loading"] /\ ffmpeg' = "loading"
  /\ UNCHANGED <<textVars, tVersion, mVersion, fs, jsrt, jdata, execCount>>
  /\ UNCHANGED <<assVars, appVars>>
  /\ UNCHANGED <<listeners, lastEvent>>

\* ffmpeg.load resolves (ffmpegService.ts:18-23).
LoadDone(j) ==
  /\ jpc[j] = "loading"
  /\ ffmpeg' = "loaded"
  /\ jpc' = [jpc EXCEPT ![j] = "writeInput"]
  /\ UNCHANGED <<textVars, tVersion, mVersion, fs, jsrt, jdata, execCount>>
  /\ UNCHANGED <<assVars, appVars>>
  /\ UNCHANGED <<listeners, lastEvent>>

\* toBlobURL or ffmpeg.load rejects: getFFmpeg throws and leaves the
\* instance that never loaded in the module variable.
LoadFails(j) ==
  /\ jpc[j] = "loading"
  /\ ffmpeg' = "unloaded"
  /\ jpc' = [jpc EXCEPT ![j] = "error"]
  /\ UNCHANGED <<textVars, tVersion, mVersion, fs, jsrt, jdata, execCount>>
  /\ UNCHANGED <<assVars, appVars>>
  /\ UNCHANGED <<listeners, lastEvent>>

\* mergeVideoAndSubtitles after getFFmpeg has returned: the two
\* ffmpegInstance.on calls add the job's callbacks to the listeners of the
\* instance (ffmpegService.ts:37-44), then fetchFile and
\* writeFile('input.mp4') (ffmpegService.ts:48-49); a call on an instance
\* whose load has not completed rejects.
WriteInput(j) ==
  /\ jpc[j] = "writeInput"
  /\ listeners' = Append(listeners, j)
  /\ IF ffmpeg # "loaded"
     THEN jpc' = [jpc EXCEPT ![j] = "error"] /\ UNCHANGED fs
     ELSE /\ fs' = [fs EXCEPT !.input = File(VideoOf(j))]
          /\ jpc' = [jpc EXCEPT ![j] = "writeSubs"]
  /\ UNCHANGED <<textVars, tVersion, mVersion, ffmpeg, jsrt, jdata, execCount>>
  /\ UNCHANGED <<assVars, appVars>>
  /\ UNCHANGED lastEvent

\* The subtitle document is made and written to subs.srt
\* (ffmpegService.ts:51-58, part_004:50-56, part_003:49); part_004 throws on
\* a document shorter than 10 code units.
WriteSubs(j) ==
  /\ jpc[j] = "writeSubs"
  /\ input' = jsrt[j]
  /\ op' = "mergeVideoAndSubtitles"
  /\ cleaned' = CASE mVersion = "ffmpegService" -> cleanSrt_ffmpegService(input')
                  [] mVersion = "part004" -> normalizedSrt_part004(input')
                  [] mVersion = "part003" -> input'
  /\ threw' = (mVersion = "part004" /\ rejected_part004(cleaned'))
  /\ result' = IF threw' THEN <<>> ELSE encode(cleaned')
  /\ IF threw'
     THEN jpc' = [jpc EXCEPT ![j] = "error"] /\ UNCHANGED fs
     ELSE /\ fs' = [fs EXCEPT !.subs = File(result')]
          /\ jpc' = [jpc EXCEPT ![j] = "exec"]
  /\ UNCHANGED <<srtContent, extracted, cues, pc, tVersion, mVersion, ffmpeg,
                 jsrt, jdata, execCount>>
  /\ UNCHANGED <<assVars, appVars>>
  /\ UNCHANGED <<listeners, lastEvent>>

\* ffmpegInstance.exec (ffmpegService.ts:96-108): the encoder reads input.mp4
\* and subs.srt as they are now and writes output.mp4; with a file missing
\* it writes nothing.  The fonts are the same files for every job and are
\* left out.  While it runs the encoder emits progress events, one here:
\* the instance calls every 'progress' listener it holds, in the order of
\* their registration.
Exec(j) ==
  /\ jpc[j] = "exec"
  /\ execCount' = execCount + 1
  /\ lastEvent' = [by |-> j, invoked |-> listeners]
  /\ fs' = IF fs.input.exists /\ fs.subs.exists
           THEN [fs EXCEPT !.output =
                   File([video |-> fs.input.data, subs |-> fs.subs.data])]
           ELSE fs
  /\ jpc' = [jpc EXCEPT ![j] = "readOutput"]
  /\ UNCHANGED <<textVars, tVersion, mVersion, ffmpeg, jsrt, jdata>>
  /\ UNCHANGED <<assVars, appVars>>
  /\ UNCHANGED listeners

\* readFile('output.mp4') (ffmpegService.ts:115); it rejects when the file
\* is not there.
ReadOutput(j) ==
  /\ jpc[j] = "readOutput"
  /\ IF fs.output.exists
     THEN /\ jdata' = [jdata EXCEPT ![j] = <<fs.output.data>>]
          /\ jpc' = [jpc EXCEPT ![j] = "deleteInput"]
     ELSE jpc' = [jpc EXCEPT ![j] = "error"] /\ UNCHANGED jdata
  /\ UNCHANGED <<textVars, tVersion, mVersion, ffmpeg, fs, jsrt, execCount>>
  /\ UNCHANGED <<assVars, appVars>>
  /\ UNCHANGED <<listeners, lastEvent>>

\* The deleteFile calls of the cleanup (ffmpegService.ts:118-124), one await
\* each; the first that rejects (the file is gone) ends the cleanup.  Then
\* the Blob is returned and the workflow completes (part_005:116-119).
DeleteInput(j) ==
  /\ jpc[j] = "deleteInput"
  /\ IF fs.input.exists
     THEN /\ fs' = [fs EXCEPT !.input = NoFile]
          /\ jpc' = [jpc EXCEPT ![j] = "deleteSubs"]
     ELSE jpc' = [jpc EXCEPT ![j] = "completed"] /\ UNCHANGED fs
  /\ UNCHANGED <<textVars, tVersion, mVersion, ffmpeg, jsrt, jdata, execCount>>
  /\ UNCHANGED <<assVars, appVars>>
  /\ UNCHANGED <<listeners, lastEvent>>

DeleteSubs(j) ==
  /\ jpc[j] = "deleteSubs"
  /\ IF fs.subs.exists
     THEN /\ fs' = [fs EXCEPT !.subs = NoFile]
          /\ jpc' = [jpc EXCEPT ![j] = "deleteOutput"]
     ELSE jpc' = [jpc EXCEPT ![j] = "completed"] /\ UNCHANGED fs
  /\ UNCHANGED <<textVars, tVersion, mVersion, ffmpeg, jsrt, jdata, execCount>>
  /\ UNCHANGED <<assVars, appVars>>
  /\ UNCHANGED <<listeners, lastEvent>>

DeleteOutput(j) ==
  /\ jpc[j] = "deleteOutput"
  /\ fs' = [fs EXCEPT !.output = NoFile]
  /\ jpc' = [jpc EXCEPT ![j] = "completed"]
  /\ UNCHANGED <<textVars, tVersion, mVersion, ffmpeg, jsrt, jdata, execCount>>
  /\ UNCHANGED <<assVars, appVars>>
  /\ UNCHANGED <<listeners, lastEvent>>

NextJobs ==
  \E j \in Jobs :
    \/ StartWorkflow(j)
    \/ TranslateReturns(j)
    \/ TranslateFails(j)
    \/ GetFFmpeg(j)
    \/ LoadDone(j)
    \/ LoadFails(j)
    \/ WriteInput(j)
    \/ WriteSubs(j)
    \/ Exec(j)
    \/ ReadOutput(j)
    \/ DeleteInput(j)
    \/ DeleteSubs(j)
    \/ DeleteOutput(j)

SpecJobs == InitJobs /\ [][NextJobs]_vars

\* ------------------------------------------- translateSubtitles (ASS), loop
\* const maxRetries = 3 (geminiService.ts:133)
maxRetries == 3

\* The substrings that make an error retryable (geminiService.ts:160).
Code503 == <<"5", "0", "3">>
Code429 == <<"4", "2", "9">>
Overloaded == <<"o", "v", "e", "r", "l", "o", "a", "d", "e", "d">>

\* error.message of the errors a model call rejects with: server overload,
\* rate limit, overloaded model, a bad request, and an error whose message
\* is undefined or '' (both are falsy and have no substring).
Msg503 == Code503 \o <<SP, "U", "N", "A", "V", "A", "I", "L", "A", "B", "L", "E">>
Msg429 == Code429 \o <<SP, "q", "u", "o", "t", "a">>
MsgOverloaded == <<"m", "o", "d", "e", "l", SP>> \o Overloaded
Msg400 == <<"4", "0", "0", SP, "k", "e", "y">>
NoMessage == <<>>
ErrorMessages == {Msg503, Msg429, MsgOverloaded, Msg400, NoMessage}

\* The message of the error for a response without '[Events]' if it named
\* a status code: "503 Invalid ASS".
MsgInvalidAss_withCode ==
  Code503 \o <<SP, "I", "n", "v", "a", "l", "i", "d", SP, "A", "S", "S">>

\* new Error("Invalid ASS structure received from AI.") (geminiService.ts:154)
MsgInvalidAss ==
  <<"I", "n", "v", "a", "l", "i", "d", SP, "A", "S", "S", SP, "s", "t",
      "r", "u", "c", "t", "u", "r", "e", SP, "r", "e", "c", "e", "i", "v",
      "e", "d", SP, "f", "r", "o", "m", SP, "A", "I", ".">>

\* response.text of a model call that resolves.
AssFenceTight == Fence \o AssEventsOnly \o Fence
LoopResponses ==
  {AssFull, AssFenced, AssFenceTight, AssEventsOnly, AssDialogueOnly, <<>>}

\* isRetryable with every error taken as retryable.
isRetryable_always(message) == TRUE

\* error.message?.includes('503') || error.message?.includes('429') ||
\* error.message?.includes('overloaded')   (geminiService.ts:160)
isRetryable(message) ==
  /\ message # NoMessage
  /\ \/ includes(message, Code503)
     \/ includes(message, Code429)
     \/ includes(message, Overloaded)

\* backoffMs growing by a second per attempt: attempt * 1000.
backoffMs_linear(n) == n * 1000

\* Math.pow(2, attempt - 1) * 1000 (geminiService.ts:139)
backoffMs(n) == (2 ^ (n - 1)) * 1000

InitAss ==
  /\ input = <<>>
  /\ srtContent \in Originals
  /\ op = "translateSubtitles_ass"
  /\ extracted = <<>>
  /\ cleaned = <<>>
  /\ cues = <<>>
  /\ result = <<>>
  /\ threw = FALSE
  /\ pc = "start"
  /\ JobsOff
  /\ apc = "attempt"
  /\ attempt = 0
  /\ lastError = NoError
  /\ calls = 0
  /\ outcomes = <<>>
  /\ retries = <<>>
  /\ sleeps = <<>>
  /\ AppOff

\* Catch with the last attempt allowed one retry more.
Catch_oneMore(message) ==
  /\ lastError' = message
  /\ IF ~isRetryable(message) \/ attempt = maxRetries + 1
     THEN /\ apc' = "threw"
          /\ threw' = TRUE
          /\ pc' = "done"
          /\ UNCHANGED attempt
     ELSE /\ apc' = "attempt"
          /\ attempt' = attempt + 1
          /\ UNCHANGED <<threw, pc>>

\* The catch block (geminiService.ts:158-166) for an error with this
\* message, and the throw after the loop (168-174) when it breaks.
Catch(message) ==
  /\ lastError' = message
  /\ IF ~isRetryable(message) \/ attempt = maxRetries
     THEN /\ apc' = "threw"
          /\ threw' = TRUE
          /\ pc' = "done"
          /\ UNCHANGED attempt
     ELSE /\ apc' = "attempt"
          /\ attempt' = attempt + 1
          /\ UNCHANGED <<threw, pc>>

\* The top of the try block (geminiService.ts:135-141): a re-attempt calls
\* onRetry and starts its sleep, the first attempt goes on to the model call.
BeginAttempt ==
  /\ apc = "attempt"
  /\ IF attempt > 0
     THEN /\ retries' = Append(retries, attempt)
          /\ sleeps' = Append(sleeps, backoffMs(attempt))
          /\ apc' = "sleeping"
          /\ UNCHANGED calls
     ELSE /\ apc' = "calling"
          /\ calls' = calls + 1
          /\ UNCHANGED <<retries, sleeps>>
  /\ UNCHANGED <<textVars, jobVars, attempt, lastError, outcomes>>
  /\ UNCHANGED appVars

\* The sleep resolves and generateContent is called (geminiService.ts:140-143).
Wake ==
  /\ apc = "sleeping"
  /\ apc' = "calling"
  /\ calls' = calls + 1
  /\ UNCHANGED <<textVars, jobVars, attempt, lastError, outcomes, retries, sleeps>>
  /\ UNCHANGED appVars

\* The model call resolves (geminiService.ts:152-157): a text with
\* '[Events]' is cleaned and returned, any other throws into the catch.
CallResolves ==
  /\ apc = "calling"
  /\ \E r \in LoopResponses : input' = r
  /\ outcomes' = Append(outcomes, [ok |-> TRUE, text |-> input'])
  /\ IF includes(input', EventsHeader)
     THEN /\ cleaned' = cleanAssOutput(input')
          /\ result' = cleaned'
          /\ apc' = "returned"
          /\ pc' = "done"
          /\ UNCHANGED <<threw, attempt, lastError>>
     ELSE /\ Catch(MsgInvalidAss)
          /\ UNCHANGED <<cleaned, result>>
  /\ UNCHANGED <<srtContent, op, extracted, cues, jobVars, calls, retries, sleeps>>
  /\ UNCHANGED appVars

\* The model call rejects (geminiService.ts:158-166).
CallRejects ==
  /\ apc = "calling"
  /\ \E m \in ErrorMessages :
       /\ outcomes' = Append(outcomes, [ok |-> FALSE, text |-> m])
       /\ Catch(m)
  /\ UNCHANGED <<input, srtContent, op, extracted, cleaned, cues, result,
                 jobVars, calls, retries, sleeps>>
  /\ UNCHANGED appVars

NextAss == BeginAttempt \/ Wake \/ CallResolves \/ CallRejects

SpecAss == InitAss /\ [][NextAss]_vars

\* The same call where every await settles: the timer of sleep fires
\* (geminiService.ts:94) and the model call resolves or rejects.
FairSpecAss == SpecAss /\ WF_vars(NextAss)

\* ------------------------------------------------- the App and its workflow
\* The three components that run processWorkflow: App.tsx ("App"), the
\* component in ffmpegService.ts:784-1147 ("AppCopy"), both started by an
\* effect, and part_005 ("part_005"), started by a button.
AppVersions == {"App", "AppCopy", "part_005"}

AutoStart == aVersion \in {"App", "AppCopy"}

\* The bound of the model on the FileReaders that are reading at one time.
MaxReaders == 1

VideoNames == {"a.mp4"}

\* The contents of the subtitle files a user picks.
SrtFiles == Originals

\* The language buttons (App.tsx:266; two of the six).
DefaultLanguage == "Chinese (Simplified)"
Languages == {DefaultLanguage, "Japanese"}

\* What translateSubtitles resolves with, as far as the component reads it:
\* part_005 stores it in srtContent, the text of its next run (part_005:103).
Translations == {Doc(<<"cue1">>) \o <<LF, LF>>, <<>>}

\* The values onProgress is called with (ffmpegService.ts:40-43).
ProgressValues == {50}

Idle == [step |-> "idle", progress |-> 0]

\* `${videoFile?.name}-${originalSrtContent.length}-${targetLanguage}`
\* (App.tsx:37). The length is digits and the language one of the buttons'
\* labels, so two keys are the same string exactly when the three parts are
\* the same; the key is kept as the three parts.
currentKey(v, c, l) == <<v, Len(c), l>>

\* The steps in which the effect starts the workflow (App.tsx:42,
\* ffmpegService.ts:826).
StartSteps == IF aVersion = "App" THEN {"idle", "error"} ELSE {"idle"}

\* The condition of the effect (App.tsx:39-44) without the comparison of the
\* key.
effectFires_noKey(v, c, l, st, lk) ==
  /\ AutoStart
  /\ v # NoVideo
  /\ c # <<>>
  /\ st.step \in StartSteps

\* The condition of the effect (App.tsx:39-44, ffmpegService.ts:823-828).
effectFires(v, c, l, st, lk) ==
  /\ AutoStart
  /\ v # NoVideo
  /\ c # <<>>
  /\ st.step \in StartSteps
  /\ currentKey(v, c, l) # lk

\* The progress processWorkflow sets with a step (App.tsx:126, 139, 152, 155;
\* ffmpegService.ts:903, 910, 922, 926; part_005:100, 107, 118, 123).
ProgressOf(step) ==
  CASE step = "translating" -> IF aVersion = "AppCopy" THEN 10 ELSE 5
    [] step = "merging" -> IF aVersion = "App" THEN 10 ELSE 0
    [] step = "completed" -> 100
    [] OTHER -> 0

StatusOf(step) == [step |-> step, progress |-> ProgressOf(step)]

\* processWorkflow up to its first await (App.tsx:118-131): the run r begins.
Begun(rs, r) ==
  [rs EXCEPT ![r] = [pc |-> "translating", steps |-> <<StatusOf("translating")>>,
                     merges |-> 0, translated |-> FALSE]]

\* The component after a handler or a callback has set the state to v, c, l,
\* st, url with the runs rs: React renders, and the effect (App.tsx:36-49)
\* runs on the new state; where its condition holds it stores the key and
\* calls processWorkflow, which sets resultVideoUrl and the status and awaits
\* translateSubtitles.
Rendered(v, c, l, st, url, lk, rs) ==
  IF effectFires(v, c, l, st, lk)
  THEN /\ nRuns < MaxRuns
       /\ videoFile' = v
       /\ originalSrtContent' = c
       /\ targetLanguage' = l
       /\ status' = StatusOf("translating")
       /\ resultVideoUrl' = FALSE
       /\ lastProcessedKey' = currentKey(v, c, l)
       /\ nRuns' = nRuns + 1
       /\ runs' = Begun(rs, nRuns + 1)
  ELSE /\ videoFile' = v
       /\ originalSrtContent' = c
       /\ targetLanguage' = l
       /\ status' = st
       /\ resultVideoUrl' = url
       /\ lastProcessedKey' = lk
       /\ nRuns' = nRuns
       /\ runs' = rs

\* The component after its first render (App.tsx:8-28).
InitApp ==
  /\ input = <<>>
  /\ srtContent = <<>>
  /\ op = "App"
  /\ extracted = <<>>
  /\ cleaned = <<>>
  /\ cues = <<>>
  /\ result = <<>>
  /\ threw = FALSE
  /\ pc = "start"
  /\ JobsOff
  /\ AssOff
  /\ aVersion \in AppVersions
  /\ videoFile = NoVideo
  /\ originalSrtContent = <<>>
  /\ targetLanguage = DefaultLanguage
  /\ status = Idle
  /\ resultVideoUrl = FALSE
  /\ lastProcessedKey = NoKey
  /\ readers = <<>>
  /\ runs = [r \in 1..MaxRuns |-> NoRun]
  /\ nRuns = 0

\* status.step === 'completed' || status.step === 'error' of the upload
\* handlers (App.tsx:61, 77; ffmpegService.ts:842, 856); part_005 has no
\* such test (part_005:38-56).
HasEnded(step) == aVersion # "part_005" /\ step \in {"completed", "error"}

\* setStatus idle where the test holds (App.tsx:61-63, 77-79).
BackToIdle(ended, st) == IF ended THEN Idle ELSE st

\* handleVideoUpload (App.tsx:56-65): the inputs are never disabled.
HandleVideoUpload(name) ==
  /\ Rendered(name, originalSrtContent, targetLanguage,
              BackToIdle(HasEnded(status.step), status), resultVideoUrl,
              lastProcessedKey, runs)
  /\ UNCHANGED <<aVersion, readers>>
  /\ UNCHANGED <<textVars, jobVars, assVars>>

\* handleSrtUpload (App.tsx:67-83) up to reader.readAsText: onload is a
\* closure over the status of this render.
HandleSrtUpload(content) ==
  /\ Len(readers) < MaxReaders
  /\ readers' = Append(readers, [content |-> content,
                                  ended |-> HasEnded(status.step)])
  /\ UNCHANGED <<aVersion, videoFile, originalSrtContent, targetLanguage,
                 status, resultVideoUrl, lastProcessedKey, runs, nRuns>>
  /\ UNCHANGED <<textVars, jobVars, assVars>>

\* reader.onload (App.tsx:73-81) of the i-th reader: its test is on the
\* status it captured, not on the status of now.
ReaderLoads(i) ==
  /\ i \in 1..Len(readers)
  /\ readers' = SubSeq(readers, 1, i - 1) \o SubSeq(readers, i + 1, Len(readers))
  /\ Rendered(videoFile, readers[i].content, targetLanguage,
              BackToIdle(readers[i].ended, status), resultVideoUrl,
              lastProcessedKey, runs)
  /\ UNCHANGED aVersion
  /\ UNCHANGED <<textVars, jobVars, assVars>>

\* The steps in which the language buttons are enabled (App.tsx:270,
\* ffmpegService.ts:1035, part_005:222).
LanguageSteps ==
  IF aVersion = "part_005" THEN {"idle", "error"}
  ELSE {"idle", "completed", "error"}

\* A language button's onClick (App.tsx:269; ffmpegService.ts:1023-1033 also
\* sets the status idle after completed or error).
SetTargetLanguage(lang) ==
  /\ status.step \in LanguageSteps
  /\ Rendered(videoFile, originalSrtContent, lang,
              BackToIdle(aVersion = "AppCopy" /\ HasEnded(status.step), status),
              resultVideoUrl, lastProcessedKey, runs)
  /\ UNCHANGED <<aVersion, readers>>
  /\ UNCHANGED <<textVars, jobVars, assVars>>

\* resetState (App.tsx:172-181), the button of the result card (App.tsx:325,
\* 349).
ResetState ==
  /\ aVersion = "App"
  /\ status.step = "completed"
  /\ resultVideoUrl
  /\ Rendered(NoVideo, <<>>, targetLanguage, Idle, FALSE, NoKey, runs)
  /\ UNCHANGED <<aVersion, readers>>
  /\ UNCHANGED <<textVars, jobVars, assVars>>

\* The button of part_005 (part_005:231-233): processWorkflow up to its first
\* await, or its early return (part_005:89-92).
ClickStart ==
  /\ aVersion = "part_005"
  /\ status.step \in {"idle", "error"}
  /\ IF videoFile = NoVideo \/ originalSrtContent = <<>>
     THEN UNCHANGED <<status, resultVideoUrl, runs, nRuns>>
     ELSE /\ nRuns < MaxRuns
          /\ status' = StatusOf("translating")
          /\ resultVideoUrl' = FALSE
          /\ nRuns' = nRuns + 1
          /\ runs' = Begun(runs, nRuns + 1)
  /\ UNCHANGED <<aVersion, videoFile, originalSrtContent, targetLanguage,
                 lastProcessedKey, readers>>
  /\ UNCHANGED <<textVars, jobVars, assVars>>

\* The run r after a setStatus of its own.
Stepped(r, pcNew, step) ==
  [runs EXCEPT ![r].pc = pcNew, ![r].steps = Append(@, StatusOf(step))]

\* translateSubtitles rejects in run r and processWorkflow goes on to the
\* encoder all the same.
TranslateRejects_goesOn(r) ==
  /\ r \in 1..nRuns
  /\ runs[r].pc = "translating"
  /\ Rendered(videoFile, originalSrtContent, targetLanguage,
              StatusOf("merging"), resultVideoUrl, lastProcessedKey,
              [Stepped(r, "merging", "merging") EXCEPT ![r].merges = @ + 1])
  /\ UNCHANGED <<aVersion, readers>>
  /\ UNCHANGED <<textVars, jobVars, assVars>>

\* translateSubtitles rejects in run r (App.tsx:133-137, 153-156): the catch
\* sets the status.
TranslateRejects(r) ==
  /\ r \in 1..nRuns
  /\ runs[r].pc = "translating"
  /\ Rendered(videoFile, originalSrtContent, targetLanguage,
              StatusOf("error"), resultVideoUrl, lastProcessedKey,
              Stepped(r, "error", "error"))
  /\ UNCHANGED <<aVersion, readers>>
  /\ UNCHANGED <<textVars, jobVars, assVars>>

\* translateSubtitles resolves in run r (App.tsx:131-147): the status is set
\* and mergeVideoAndSubtitles is called.
TranslateResolves(r, text) ==
  /\ r \in 1..nRuns
  /\ runs[r].pc = "translating"
  /\ Rendered(videoFile,
              IF aVersion = "part_005" THEN text ELSE originalSrtContent,
              targetLanguage, StatusOf("merging"), resultVideoUrl,
              lastProcessedKey,
              [Stepped(r, "merging", "merging") EXCEPT
                 ![r].merges = @ + 1, ![r].translated = TRUE])
  /\ UNCHANGED <<aVersion, readers>>
  /\ UNCHANGED <<textVars, jobVars, assVars>>

\* onProgress of run r (App.tsx:145, ffmpegService.ts:915, part_005:112).
MergeProgress(r, p) ==
  /\ r \in 1..nRuns
  /\ runs[r].pc = "merging"
  /\ Rendered(videoFile, originalSrtContent, targetLanguage,
              [status EXCEPT !.progress = IF aVersion = "App" THEN Max({p, 10})
                                          ELSE p],
              resultVideoUrl, lastProcessedKey, runs)
  /\ UNCHANGED <<aVersion, readers>>
  /\ UNCHANGED <<textVars, jobVars, assVars>>

\* mergeVideoAndSubtitles resolves in run r (App.tsx:149-152).
MergeResolves(r) ==
  /\ r \in 1..nRuns
  /\ runs[r].pc = "merging"
  /\ Rendered(videoFile, originalSrtContent, targetLanguage,
              StatusOf("completed"), TRUE, lastProcessedKey,
              Stepped(r, "completed", "completed"))
  /\ UNCHANGED <<aVersion, readers>>
  /\ UNCHANGED <<textVars, jobVars, assVars>>

\* mergeVideoAndSubtitles rejects in run r (App.tsx:153-156).
MergeRejects(r) ==
  /\ r \in 1..nRuns
  /\ runs[r].pc = "merging"
  /\ Rendered(videoFile, originalSrtContent, targetLanguage,
              StatusOf("error"), resultVideoUrl, lastProcessedKey,
              Stepped(r, "error", "error"))
  /\ UNCHANGED <<aVersion, readers>>
  /\ UNCHANGED <<textVars, jobVars, assVars>>

NextApp ==
  \/ \E name \in VideoNames : HandleVideoUpload(name)
  \/ \E content \in SrtFiles : HandleSrtUpload(content)
  \/ \E i \in 1..MaxReaders : ReaderLoads(i)
  \/ \E lang \in Languages : SetTargetLanguage(lang)
  \/ ResetState
  \/ ClickStart
  \/ \E r \in 1..MaxRuns : TranslateRejects(r)
  \/ \E r \in 1..MaxRuns, text \in Translations : TranslateResolves(r, text)
  \/ \E r \in 1..MaxRuns, p \in ProgressValues : MergeProgress(r, p)
  \/ \E r \in 1..MaxRuns : MergeResolves(r)
  \/ \E r \in 1..MaxRuns : MergeRejects(r)

SpecApp == InitApp /\ [][NextApp]_vars

\* ------------------------------------------------- notions of the claims
Done(ops) == pc = "done" /\ op \in ops

NormalizeOps ==
  {"normalizeSrt_part000", "normalizeSrt_part002", "normalizeSrt_gemini"}

\* The blank-line-delimited blocks of a text (none for a blank text).
blocksOf(text) == IF trim(text) = <<>> THEN <<>> ELSE entriesOf(text)

\* The number of elements of xs that satisfy P.
Count(xs, P(_)) == Cardinality({i \in 1..Len(xs) : P(xs[i])})

\* A block with a timing line / with a timing line and no line after it.
HasTimingLine(block) == timestampLineIndex(SplitLF(block)) # -1
TimingLineIsLast(block) ==
  LET lines == SplitLF(block)
  IN  HasTimingLine(block) /\ timestampLineIndex(lines) + 1 = Len(lines)

\* The text ends with one blank line: two line feeds after another code unit.
EndsWithOneBlankLine(text) ==
  /\ Len(text) >= 3
  /\ text[Len(text)] = LF
  /\ text[Len(text) - 1] = LF
  /\ text[Len(text) - 2] # LF

\* A canonical document: each cue written as index line, timing line, text
\* lines and one blank line (spec, section 6).
Serialize(cs) ==
  join([i \in 1..Len(cs) |->
          NumberToString(i) \o <<LF>> \o cs[i].timestamps \o <<LF>>
            \o join(cs[i].textLines, <<LF>>) \o <<LF, LF>>], <<>>)

Cue(lines) == [ok |-> TRUE, timestamps |-> Timing, textLines |-> lines]

\* Well-formed cues: a valid timing and one or two text lines.
WellFormedCues == {Cue(<<TextHi>>), Cue(<<TextHi, TextQuoted>>), Cue(<<TextHiSp>>)}

WellFormedCueSeqs == UNION {[1..n -> WellFormedCues] : n \in 1..MaxBlocks}

\* Cues whose text lines neither begin nor end with white space.
TrimmedCueSeqs ==
  {cs \in WellFormedCueSeqs :
     \A i \in 1..Len(cs) : \A k \in 1..Len(cs[i].textLines) :
        trim(cs[i].textLines[k]) = cs[i].textLines[k]}

\* The canonical documents of the cue sequences, with their cues.
RoundTripCases == {<<Serialize(cs), cs>> : cs \in WellFormedCueSeqs}

CanonicalDocs == {Serialize(cs) : cs \in TrimmedCueSeqs}

\* s without the white space at its end.
trimEnd(s) == SubSeq(s, 1, RunStart(s, Len(s), WhiteSpace))

\* The cue with the white space at the end of its last text line removed.
TrimLastLine(cue) ==
  [cue EXCEPT !.textLines[Len(cue.textLines)] = trimEnd(@)]

\* input is ```srt\n<body>\n``` ; FencedBody is the body.
IsFenced(text) ==
  /\ Len(text) >= Len(FenceOpen) + Len(FenceClose)
  /\ StartsWithAt(text, 1, FenceOpen)
  /\ StartsWithAt(text, Len(text) - Len(FenceClose) + 1, FenceClose)

FencedBody(text) ==
  SubSeq(text, Len(FenceOpen) + 1, Len(text) - Len(FenceClose))

\* Fence-free block sequences, each block fenced on its own.
FenceFreeKindSeqs ==
  {ks \in KindSeqs : \A i \in 1..Len(ks) : ~includes(Block(ks[i], i), Fence)}

FencedEach(ks) == join([i \in 1..Len(ks) |-> Fenced(Block(ks[i], i))], <<LF>>)

\* The texts with every block fenced, each with its blocks joined by a line
\* feed.
FencedEachCases ==
  {<<FencedEach(ks), join(BlocksOf(ks), <<LF>>)>> : ks \in FenceFreeKindSeqs}

\* No line of the text begins with a fence marker.
NoFenceLine(text) ==
  \A i \in 1..Len(text) :
     StartsWithAt(text, i, Fence) => ~(i = 1 \/ text[i - 1] = LF)

\* A cue opening at index i: a line that is a positive integer and nothing
\* else, and right after it a line HH:MM:SS,mmm --> HH:MM:SS,mmm.
CueOpeningLineAt(text, i) ==
  /\ i = 1 \/ text[i - 1] = LF
  /\ text[i] \in Digits
  /\ LET a == RunEnd(text, i, Digits)
     IN  /\ \E k \in i..(a - 1) : text[k] # "0"
         /\ a <= Len(text)
         /\ text[a] = LF
         /\ timestampAt(text, a + 1)
         /\ StartsWithAt(text, a + 13, ArrowSp)
         /\ timestampAt(text, a + 18)
         /\ a + 30 > Len(text) \/ text[a + 30] = LF

FirstCueOpeningLine(text) ==
  LET I == {i \in 1..Len(text) : CueOpeningLineAt(text, i)}
  IN  IF I = {} THEN 0 ELSE Min(I)

\* ----------------------------------------------------------------- claims

\* C1: for every input with a non-blank character, the text normalizeSrt
\* returns ends with exactly two line feeds (one blank line).  Stated where
\* normalizeSrt emits something; an empty output is the case of C3.
C1_EndsWithOneBlankLine ==
  (Done(NormalizeOps) /\ trim(input) # <<>> /\ result # <<>>)
    => EndsWithOneBlankLine(result)

\* C2: the index lines of the cues normalizeSrt emits are 1, 2, ..., N in that
\* order, N the number of surviving cues, whatever blocks were dropped
\* (normalizeSrt of part_000; part_002 numbers the same way).
C2_IndicesSequential ==
  Done({"normalizeSrt_part000"}) =>
    LET out == blocksOf(result)
    IN  /\ Len(out) = Len(cues)
        /\ \A k \in 1..Len(out) : SplitLF(out[k])[1] = NumberToString(k)

\* C3: when the text holds zero parseable cues, translateSubtitles signals
\* failure; it never returns a document of zero cues (translateSubtitles of
\* part_000).
C3_ZeroCuesSignalFailure ==
  (Done({"translateSubtitles_part000"}) /\ ~threw)
    => Count(blocksOf(result), LAMBDA b : HasTimingLine(b) /\ ~TimingLineIsLast(b)) > 0

\* C4: a block with text and no timestamp line contributes no cue to the
\* output of normalizeSrt: every emitted block has a timing line, and the
\* blocks with one are still emitted.
C4_NoTimestampBlockDropped ==
  Done(NormalizeOps) =>
    LET in == blocksOf(input)
        out == blocksOf(result)
    IN  /\ \A k \in 1..Len(out) : HasTimingLine(out[k])
        /\ Len(out) <= Count(in, HasTimingLine)
        /\ Len(out) >= Count(in, LAMBDA b : HasTimingLine(b) /\ ~TimingLineIsLast(b))

\* C5: a block with a timestamp line and zero text lines contributes no cue:
\* normalizeSrt never emits a cue with a timing and no text (normalizeSrt of
\* part_002).
C5_NoCueWithoutText ==
  Done({"normalizeSrt_part002"}) =>
    \A k \in 1..Len(blocksOf(result)) : ~TimingLineIsLast(blocksOf(result)[k])

\* C6: normalizeSrt returns an already-canonical document unchanged, byte
\* for byte.
C6_CanonicalUnchanged ==
  (Done({"normalizeSrt_part000", "normalizeSrt_gemini"})
     /\ input \in CanonicalDocs) => result = input

\* C7 (as stated): serializing N >= 1 well-formed cues and parsing the result
\* yields the same cues, in order, with the same timestamps and text lines.
C7_RoundTripExact ==
  Done({"normalizeSrt_part000", "normalizeSrt_part002"}) =>
    \A c \in RoundTripCases : input = c[1] => cues = c[2]

\* C7 (amended): the same, except that white space at the end of a cue's last
\* text line is removed.
C7_RoundTripTrimmed ==
  Done({"normalizeSrt_part000", "normalizeSrt_part002"}) =>
    \A c \in RoundTripCases :
       input = c[1] => cues = [i \in 1..Len(c[2]) |-> TrimLastLine(c[2][i])]

C7_Witness ==
  /\ Done({"normalizeSrt_part000"})
  /\ input = Serialize(<<Cue(<<TextHi, TextQuoted>>), Cue(<<TextHiSp>>)>>)
  /\ cues = <<Cue(<<TextHi, TextQuoted>>), Cue(<<TextHi>>)>>

\* C8 (as stated): ```srt, a fence-free body and ``` sanitize to exactly the
\* body.
C8_FencedBodyExact ==
  (Done({"translateSubtitles_gemini", "cleanAssOutput"}) /\ IsFenced(input)
     /\ ~includes(FencedBody(input), Fence))
    => cleaned = FencedBody(input)

\* C8 (amended): they sanitize to the body with the white space at its two
\* ends removed and no fence marker left, also when fences occur repeatedly.
C8_FencedBodyTrimmed ==
  Done({"translateSubtitles_gemini", "cleanAssOutput"}) =>
    /\ (IsFenced(input) /\ ~includes(FencedBody(input), Fence)) =>
         /\ cleaned = trim(FencedBody(input))
         /\ ~includes(cleaned, Fence)
    /\ \A c \in FencedEachCases :
         input = c[1] =>
           /\ cleaned = trim(c[2])
           /\ ~includes(cleaned, Fence)

C8_Witness ==
  /\ Done({"translateSubtitles_gemini"})
  /\ input = Fenced(Doc(<<"cue2", "cueSp">>))
  /\ cleaned = trim(Doc(<<"cue2", "cueSp">>))
  /\ cleaned # Doc(<<"cue2", "cueSp">>)

\* C9: backticks that do not stand as a fence line are left alone: a text
\* without a fence line comes out of the fence stripping with its characters
\* unchanged (up to the trim at its two ends).
C9_BackticksInTextKept ==
  /\ (Done({"translateSubtitles_gemini", "cleanAssOutput"}) /\ NoFenceLine(input))
       => cleaned = trim(input)
  /\ (Done({"translateSubtitles_part000"}) /\ ~threw /\ NoFenceLine(extracted))
       => cleaned = trim(extracted)

\* C10: with a preamble before a cue opening, the extracted body is the
\* suffix of the model output that starts at the first cue opening.
C10_BodyStartsAtCueOpening ==
  (Done({"translateSubtitles_part000", "translateSubtitles_part002",
         "translateSubtitles_raw"}) /\ ~threw /\ FirstCueOpeningLine(input) > 1)
    => extracted = SubSeq(input, FirstCueOpeningLine(input), Len(input))

\* An anchor seen from its arrow at index a: white space on both sides of the
\* arrow, a timestamp ending before it and one starting after it, and before
\* the first timestamp white space preceded by a digit.
AnchorAtArrow(text, a) ==
  /\ StartsWithAt(text, a, Arrow)
  /\ LET e == RunStart(text, a - 1, WhiteSpace)
         b == RunEnd(text, a + 3, WhiteSpace)
         w == e - 12
     IN  /\ e < a - 1
         /\ b > a + 3
         /\ w >= 1
         /\ timestampAt(text, e - 11)
         /\ timestampAt(text, b)
         /\ text[w] \in WhiteSpace
         /\ RunStart(text, w, WhiteSpace) >= 1
         /\ text[RunStart(text, w, WhiteSpace)] \in Digits

\* The text holds an integer followed by timestamp, arrow, timestamp.
HasCueOpeningAnchor(text) == \E a \in 1..Len(text) : AnchorAtArrow(text, a)

ExtractOps ==
  {"translateSubtitles_part000", "translateSubtitles_part002",
   "translateSubtitles_raw"}

CleanKindSeqs == UNION {[1..n -> {"cue1", "cue2"}] : n \in 1..MaxBlocks}

WindowsCases ==
  {<<Windows(Doc(ks) \o <<LF>>), Doc(ks) \o <<LF>>>> : ks \in CleanKindSeqs}

\* C12: clean cues given with a leading byte-order mark and \r\n line ends
\* normalize to the document the same cues give with \n line ends and no
\* byte-order mark (normalizeSrt of part_000).
C12_WindowsSameAsUnix ==
  Done({"normalizeSrt_part000"}) =>
    \A c \in WindowsCases : input = c[1] => result = normalizeSrt_part000(c[2])

\* The text holds no carriage return.
UnixLineEnds(text) == \A i \in 1..Len(text) : text[i] # CR

\* Documents of clean cues as srtContent: ended by nothing, by a blank line,
\* or saved by a Windows editor.
CleanCueDocs ==
  {Doc(ks) \o t : ks \in CleanKindSeqs, t \in {<<>>, <<LF, LF>>}}
    \cup {c[1] : c \in WindowsCases}

\* C13: every document mergeVideoAndSubtitles writes to subs.srt holds no
\* carriage return and ends with exactly one blank line (mergeVideoAndSubtitles
\* of part_004, for an srtContent of clean cues).
C13_SubsUnixOneBlankLine ==
  (Done({"writeSubs_part004"}) /\ ~threw /\ input \in CleanCueDocs)
    => (UnixLineEnds(result) /\ EndsWithOneBlankLine(result))

\* The cues of an SRT text: its blocks with a timing line and text after it.
SrtCueCount(text) ==
  Count(blocksOf(text), LAMBDA b : HasTimingLine(b) /\ ~TimingLineIsLast(b))

\* The cues of an ASS text: the Dialogue: lines after an [Events] line.
AssEventCount(text) ==
  LET lines == SplitLF(text)
  IN  Cardinality({i \in 1..Len(lines) :
        /\ StartsWithAt(lines[i], 1, DialoguePrefix)
        /\ \E k \in 1..(i - 1) : StartsWithAt(lines[k], 1, EventsHeader)})

\* The operations that can throw on their text.
ThrowingSrtOps == ExtractOps \cup {"writeSubs_part004"}

C15_SubsHoldsCue ==
  (op = "mergeVideoAndSubtitles" /\ ~threw)
    => SrtCueCount(cleaned) + AssEventCount(cleaned) > 0

\* C16: the timing line may be written without spaces around the arrow: the
\* text of a clean cue followed by a cue with 00:00:01,000-->00:00:02,500
\* parses to 2 cues.
C16_NoSpaceArrowIsCue ==
  (Done({"normalizeSrt_part000"}) /\ input = TwoBlockNoSp) => Len(cues) = 2

\* The [Events] section of an ASS text opens with its Format: line.
HasEventsFormat(text) ==
  includes(text, EventsHeader \o <<LF>> \o FormatPrefix)

\* C17: an ASS document that translateSubtitles returns holds the sections
\* [Script Info], [V4+ Styles] and [Events] with its Format: line (a style
\* block the model left out is synthesized).
C17_AssHasMandatorySections ==
  (Done({"translateSubtitles_ass"}) /\ ~threw)
    => /\ includes(result, ScriptInfoHeader)
       /\ includes(result, StylesHeader)
       /\ HasEventsFormat(result)

\* The bytes mergeVideoAndSubtitles of the build writes to subs.srt for srt.
SubsOf(srt) ==
  encode(CASE mVersion = "ffmpegService" -> cleanSrt_ffmpegService(srt)
           [] mVersion = "part004" -> normalizedSrt_part004(srt)
           [] OTHER -> srt)

\* C18: two jobs that overlap do not share encoder state: the output a job
\* reads back was encoded from the video and the subtitle document of that
\* job, in every interleaving of the steps of the two jobs.
C18_JobsOwnData ==
  \A j \in Jobs :
    jdata[j] # <<>> =>
      jdata[j][1] = [video |-> VideoOf(j), subs |-> SubsOf(jsrt[j])]

\* The message of the error the k-th model call ended the attempt with
\* (a rejection, or a response without '[Events]'); NoError when the attempt
\* returned.
FailureOf(k) ==
  IF ~outcomes[k].ok THEN outcomes[k].text
  ELSE IF includes(outcomes[k].text, EventsHeader) THEN NoError
  ELSE MsgInvalidAss

Failed(k) == FailureOf(k) # NoError

RetryableFailure(k) ==
  /\ Failed(k)
  /\ \/ includes(FailureOf(k), Code503)
     \/ includes(FailureOf(k), Code429)
     \/ includes(FailureOf(k), Overloaded)

\* C19: the ASS translateSubtitles calls the model again only after a failure
\* whose message holds '503', '429' or 'overloaded'; after any other failure
\* it makes no further call and throws.
C19_RetryOnlyAfterRetryable ==
  /\ \A k \in 2..calls : RetryableFailure(k - 1)
  /\ \A k \in 1..Len(outcomes) :
       (Failed(k) /\ ~RetryableFailure(k)) => (calls = k /\ apc = "threw")

C19_Witness ==
  /\ apc = "threw"
  /\ calls = 2
  /\ outcomes = <<[ok |-> FALSE, text |-> Msg503], [ok |-> FALSE, text |-> Msg400]>>
  /\ retries = <<1>>

\* C20: translateSubtitles strips the code fences, trims, and then extracts
\* the subtitle body: the body is cut from a text that holds no fence any
\* more, so no fence is in it.
C20_BodyCutFromFenceFreeText ==
  (Done(ExtractOps) /\ ~threw) => ~includes(extracted, Fence)

\* A line that is a timestamp, the arrow between white space, a timestamp.
IsTimingLine(l) ==
  /\ timestampAt(l, 1)
  /\ LET c == RunEnd(l, 13, WhiteSpace)
         d == RunEnd(l, c + 3, WhiteSpace)
     IN  /\ c > 13
         /\ StartsWithAt(l, c, Arrow)
         /\ d > c + 3
         /\ timestampAt(l, d)
         /\ d + 11 = Len(l)

\* Documents of cues with timing and text whose index line is missing from
\* a block or written twice.
IndexOddDocs ==
  {Doc(ks) : ks \in {k \in UNION {[1..n -> {"cue1", "cue2", "noIndex"}] :
                                     n \in 1..MaxBlocks} :
                       \E i \in 1..Len(k) : k[i] = "noIndex"}}
    \cup DupIndexDocs

\* C21: normalizeSrt does not take the first line of a block for the index:
\* where the index line is missing or doubled, the timing of the cue is the
\* first line of the block that is a timing line and its text is the lines
\* after that line, in order.
C21_TimingFoundByScan ==
  (Done({"normalizeSrt_part000", "normalizeSrt_part002"})
     /\ input \in IndexOddDocs) =>
    LET bs == blocksOf(input)
    IN  /\ Len(cues) = Len(bs)
        /\ \A i \in 1..Len(bs) :
             LET lines == SplitLF(bs[i])
                 T == {k \in 1..Len(lines) : IsTimingLine(lines[k])}
             IN  /\ T # {}
                 /\ cues[i].timestamps = lines[Min(T)]
                 /\ cues[i].textLines = SubSeq(lines, Min(T) + 1, Len(lines))

C21_Witness ==
  /\ Done({"normalizeSrt_part002"})
  /\ input = CueDupIndex(1)
  /\ Len(cues) = 1
  /\ cues[1].timestamps = Timing
  /\ cues[1].textLines = <<TextHi, TextQuoted>>

\* The call has ended: it returned a document or threw.
AssEnded == apc \in {"returned", "threw"}

\* C22: every call of the ASS translateSubtitles ends, and it makes at most
\* 4 model calls (the first attempt and 3 retries), whatever the model
\* calls give.
C22_EndsWithinFourCalls == [](calls <= 4) /\ <>AssEnded

C22_Witness ==
  /\ apc = "threw"
  /\ calls = 4
  /\ \A k \in 1..4 : RetryableFailure(k)

\* The waits of the re-attempts 1, 2, 3 in milliseconds: 1 s, 2 s, 4 s.
RetryWaits == <<1000, 2000, 4000>>

\* C23: re-attempt k comes after one call onRetry(k) and a wait of 2^(k-1)
\* seconds, both before its model call; the first attempt has neither, and
\* the onRetry calls come in increasing order of k.
C23_RetryThenWaitThenCall ==
  /\ Len(retries) <= 3
  /\ \A k \in 1..Len(retries) : retries[k] = k
  /\ Len(sleeps) = Len(retries)
  /\ \A k \in 1..Len(sleeps) : sleeps[k] = RetryWaits[k]
  /\ apc = "sleeping" => calls = Len(sleeps)
  /\ (apc = "calling" \/ AssEnded) => calls = Len(sleeps) + 1

C23_Witness ==
  /\ apc = "calling"
  /\ calls = 4
  /\ retries = <<1, 2, 3>>
  /\ sleeps = <<1000, 2000, 4000>>

\* C24: translateSubtitles with fallback returns the normalization of the
\* srtContent it was given when the model output, its fences stripped, is
\* empty or holds no '-->', and the normalization of the model output
\* otherwise.
C24_FallbackToOriginal ==
  Done({"translateSubtitles_gemini"}) =>
    IF cleaned = <<>> \/ ~(\E i \in 1..Len(cleaned) : StartsWithAt(cleaned, i, Arrow))
    THEN result = normalizeSrt_gemini(srtContent)
    ELSE result = normalizeSrt_gemini(cleaned)

C24_Witness ==
  /\ Done({"translateSubtitles_gemini"})
  /\ input = TextNo
  /\ srtContent = Doc(<<"cue1">>) \o <<LF>>
  /\ result = Doc(<<"cue1">>) \o <<LF, LF>>

\* The text holds the literal '[Events]'.
HasEvents(text) == \E i \in 1..Len(text) : StartsWithAt(text, i, EventsHeader)

\* C25: the ASS translateSubtitles returns no document without '[Events]':
\* a response without it is the last model call and the function throws, and
\* a returned document, its fences stripped and trimmed, still holds it.
C25_ReturnedAssHasEvents ==
  /\ apc = "returned" => HasEvents(result)
  /\ \A k \in 1..Len(outcomes) :
       (outcomes[k].ok /\ ~HasEvents(outcomes[k].text))
         => (calls = k /\ apc = "threw")

C25_Witness ==
  /\ apc = "threw"
  /\ calls = 2
  /\ outcomes = <<[ok |-> FALSE, text |-> Msg429],
                  [ok |-> TRUE, text |-> AssDialogueOnly]>>

\* The steps run r set with setStatus, in order.
StepsOf(r) == [i \in 1..Len(runs[r].steps) |-> runs[r].steps[i].step]

\* The ways a run of processWorkflow may have set the step so far.
WorkflowPaths ==
  {<<"translating">>, <<"translating", "merging">>,
   <<"translating", "merging", "completed">>,
   <<"translating", "error">>, <<"translating", "merging", "error">>}

\* C26: in every run of processWorkflow mergeVideoAndSubtitles is called
\* only once translateSubtitles has resolved, and the run sets the step
\* translating, merging, completed in this order (or ends in error); a run
\* whose translation threw has called no encoder and has set the status to
\* error with progress 0; the step is completed only with a result URL set.
C26_TranslateThenMerge ==
  /\ \A r \in 1..nRuns :
       /\ runs[r].merges > 0 => runs[r].translated
       /\ StepsOf(r) \in WorkflowPaths
       /\ (runs[r].pc = "merging") = (StepsOf(r) = <<"translating", "merging">>)
       /\ (runs[r].pc = "error" /\ ~runs[r].translated)
            => /\ runs[r].merges = 0
               /\ runs[r].steps[Len(runs[r].steps)] = [step |-> "error", progress |-> 0]
               /\ StepsOf(r) = <<"translating", "error">>
  /\ status.step = "completed" => resultVideoUrl

C26_Witness ==
  /\ status.step = "completed"
  /\ resultVideoUrl
  /\ \E r \in 1..nRuns :
       /\ runs[r].pc = "completed"
       /\ runs[r].merges = 1
       /\ StepsOf(r) = <<"translating", "merging", "completed">>
  /\ \E r \in 1..nRuns :
       /\ runs[r].pc = "error"
       /\ ~runs[r].translated
       /\ runs[r].merges = 0

\* C27: the auto-start effect launches processWorkflow only for a key that
\* differs from the key it launched last (or after resetState has cleared
\* it), and the stored key changes in no other way: while the key is the
\* one of the last launch, a workflow that ended in error is not launched
\* again.
C27_LaunchOncePerKey ==
  [][AutoStart =>
       /\ nRuns' > nRuns =>
            /\ lastProcessedKey' = currentKey(videoFile', originalSrtContent', targetLanguage')
            /\ lastProcessedKey' # lastProcessedKey
       /\ (nRuns' = nRuns /\ lastProcessedKey' # lastProcessedKey) =>
            /\ lastProcessedKey' = NoKey
            /\ status.step = "completed"
            /\ status' = Idle]_vars

\* A workflow has ended in error, the effect has run on the step error with
\* the key of that launch, and no second run exists.
C27_Witness ==
  /\ aVersion = "App"
  /\ status.step = "error"
  /\ nRuns = 1
  /\ runs[1].pc = "error"
  /\ lastProcessedKey = currentKey(videoFile, originalSrtContent, targetLanguage)

\* The runs of processWorkflow that have not ended.
InFlight == {r \in 1..nRuns : runs[r].pc \in {"translating", "merging"}}

\* C28: in the components with the auto-start effect at most one run of
\* processWorkflow is in flight at any time.
C28_OneRunInFlight == AutoStart => Cardinality(InFlight) <= 1

\* getFFmpeg creates an instance only while the module variable is null, and
\* the variable never becomes null again: one instance in a session.
OneInstance ==
  [][/\ ffmpeg' = "loading" /\ ffmpeg # "loading" => ffmpeg = "null"
     /\ ffmpeg # "null" => ffmpeg' # "null"]_vars

\* C29: getFFmpeg creates at most one instance in a session, and the
\* instance it returns to a caller (the job goes on to writeFile) has
\* completed its load, also when calls overlap or a load has failed.
C29_ReturnsLoadedInstance ==
  [][/\ ffmpeg' = "loading" /\ ffmpeg # "loading" => ffmpeg = "null"
     /\ ffmpeg # "null" => ffmpeg' # "null"
     /\ \A j \in Jobs :
          (jpc[j] \in {"getFFmpeg", "loading"} /\ jpc'[j] = "writeInput")
            => ffmpeg' = "loaded"]_vars

\* C30: a progress event the encoder emits during the exec of a job invokes
\* the onProgress of that job, once, and the callbacks of no other job.
C30_EventInvokesCurrentJobOnce ==
  lastEvent.by # 0 => lastEvent.invoked = <<lastEvent.by>>

====
